---- MODULE Spec2Model ----
(***************************************************************************)
(* Model of api/emma.js: the EMMA request handler.                         *)
(*                                                                         *)
(* The file holds two variants of the handler and of stripEmojis:          *)
(*   variant 1  lines   1-135  (no health probe, no empty-text check,      *)
(*                              no truncation of upstream diagnostics)     *)
(*   variant 2  lines 137-282  (GET health probe, Array.isArray guard,     *)
(*                              empty-text check, details.slice(0, 2000))  *)
(* The variable `variant` says which one is deployed.                      *)
(*                                                                         *)
(* Strings that the sanitizer works on are sequences of UTF-16 code units  *)
(* (integers), as JavaScript strings are.  An upstream body that is only   *)
(* copied or sliced is the record [src, from, to]: the characters          *)
(* from..to-1 of the body that the service `src` sent.                     *)
(*                                                                         *)
(* One action is one run-to-completion segment of the async handler: the   *)
(* code between two awaits.  An outbound exchange (fetch and the read of   *)
(* the body) either delivers a status with its body or throws.             *)
(***************************************************************************)
EXTENDS Integers, Sequences, FiniteSets, TLC

VARIABLES
    variant,        \* 1 or 2: which handler of the file is deployed
    apiKey,         \* process.env.OPENAI_API_KEY
    pc,             \* position of the handler
    method,         \* req.method
    last_events,    \* req.body.last_events as sent by the client
    recent_events,  \* user.recent_events as forwarded to the generation call
    nGen,           \* calls made to /v1/responses for this request
    nTts,           \* calls made to /v1/audio/speech for this request
    textResp,       \* what the generation call returned
    rawText,        \* rawText of the handler
    cleanText,      \* cleanText of the handler
    ttsInput,       \* the `input` field sent to the speech call
    ttsResp,        \* what the speech call returned
    responses,      \* every res.status(..).json(..) made for this request
    s, once, twice, phase   \* the sanitizer applied on its own

handlerVars == <<variant, apiKey, pc, method, last_events, recent_events, nGen,
                 nTts, textResp, rawText, cleanText, ttsInput, ttsResp, responses>>
sanVars == <<s, once, twice, phase>>
vars == <<variant, apiKey, pc, method, last_events, recent_events, nGen,
          nTts, textResp, rawText, cleanText, ttsInput, ttsResp, responses,
          s, once, twice, phase>>

----------------------------------------------------------------------------
(* Bounds of the model *)

\* longest last_events array (or string) a client sends
MaxEvents == 11
\* longest output_text (in code units) the generation service returns
MaxReplyLen == 2
\* longest string (in code units) the sanitizer is applied to on its own
MaxLen == 3
\* how far past the diagnostics cap an upstream error body may run
MaxOver == 1

(* Program constants *)

\* last_events.slice(-10)
SliceCount == 10
\* errText.slice(0, 2000)
DetailsCap == 2000
\* [\u{1F300}-\u{1FAFF}]
EmojiLo == 127744
EmojiHi == 129791
\* [\u{2600}-\u{27BF}]
SymbolLo == 9728
SymbolHi == 10175
\* /\uFE0F/gu
VariationSelector == 65039

Min(a, b) == IF a < b THEN a ELSE b
Max(a, b) == IF a > b THEN a ELSE b

----------------------------------------------------------------------------
(* JavaScript strings: sequences of UTF-16 code units *)

\* 'a', ' ', '\n', '<', U+2600, U+FE0F, the surrogates of U+1F600 (D83D DE00)
Alphabet == {97, 32, 10, 60, 9728, 65039, 55357, 56832}

RECURSIVE StringsOver(_, _)
StringsOver(alphabet, n) ==
    IF n = 0 THEN {<< >>}
    ELSE LET shorter == StringsOver(alphabet, n - 1)
         IN shorter \cup {Append(t, c) : t \in {u \in shorter : Len(u) = n - 1},
                                          c \in alphabet}

\* the strings the sanitizer is applied to on its own
Strings(n) == StringsOver(Alphabet, n)

\* the values of output_text: 'a', ' ', U+2600, the surrogates of U+1F600
Replies(n) == StringsOver({97, 32, 9728, 55357, 56832}, n)

IsHighSurrogate(c) == c \in 55296..56319
IsLowSurrogate(c) == c \in 56320..57343

\* WhiteSpace and LineTerminator of ECMAScript: what \s matches and trim() strips
IsSpace(c) ==
    c \in {9, 10, 11, 12, 13, 32, 160, 5760, 8232, 8233, 8239, 8287, 12288, 65279}
    \/ c \in 8192..8202

\* In a /u regular expression a high surrogate followed by a low one is one
\* code point; any other code unit (a lone surrogate too) is one by itself.
IsPairAt(str, i) ==
    /\ i < Len(str)
    /\ IsHighSurrogate(str[i])
    /\ IsLowSurrogate(str[i + 1])

CodePointAt(str, i) ==
    IF IsPairAt(str, i)
    THEN 65536 + (str[i] - 55296) * 1024 + (str[i + 1] - 56320)
    ELSE str[i]

\* str.replace(/[class]/gu, ""): one left-to-right pass over the code points
RECURSIVE RemoveFrom(_, _, _)
RemoveFrom(str, i, class) ==
    IF i > Len(str) THEN << >>
    ELSE LET w == IF IsPairAt(str, i) THEN 2 ELSE 1
             kept == IF CodePointAt(str, i) \in class
                     THEN << >>
                     ELSE SubSeq(str, i, i + w - 1)
         IN kept \o RemoveFrom(str, i + w, class)

RemoveCodePoints(str, class) == RemoveFrom(str, 1, class)

\* str.replace(/[<>]/g, ""): no u flag, code unit by code unit
IsKept(c) == c \notin {60, 62}
RemoveAngles(str) == SelectSeq(str, IsKept)

RECURSIVE TrimStart(_)
TrimStart(str) ==
    IF str # << >> /\ IsSpace(Head(str)) THEN TrimStart(Tail(str)) ELSE str

RECURSIVE TrimEnd(_)
TrimEnd(str) ==
    IF str # << >> /\ IsSpace(str[Len(str)])
    THEN TrimEnd(SubSeq(str, 1, Len(str) - 1))
    ELSE str

\* String.prototype.trim
Trim(str) == TrimEnd(TrimStart(str))

\* str.replace(/\s+/g, " ")
RECURSIVE CollapseSpaces(_)
CollapseSpaces(str) ==
    IF str = << >> THEN << >>
    ELSE IF IsSpace(Head(str))
         THEN <<32>> \o CollapseSpaces(TrimStart(Tail(str)))
         ELSE <<Head(str)>> \o CollapseSpaces(Tail(str))

\* stripEmojis of variant 1 (lines 125-135)
stripEmojis1(str) ==
    Trim(RemoveAngles(
        RemoveCodePoints(
            RemoveCodePoints(
                RemoveCodePoints(str, EmojiLo..EmojiHi),
                SymbolLo..SymbolHi),
            {VariationSelector})))

\* stripEmojis of variant 2 (lines 276-282)
stripEmojis2(str) ==
    Trim(RemoveCodePoints(
            RemoveCodePoints(
                RemoveCodePoints(str, EmojiLo..EmojiHi),
                SymbolLo..SymbolHi),
            {VariationSelector}))

stripEmojis(v, str) == IF v = 1 THEN stripEmojis1(str) ELSE stripEmojis2(str)

\* stripEmojis(String(rawText || "").trim()).replace(/\s+/g, " ").trim()
sanitize(v, raw) == Trim(CollapseSpaces(stripEmojis(v, Trim(raw))))

----------------------------------------------------------------------------
(* Values of the handler *)

Methods == {"GET", "POST", "PUT", "DELETE"}

\* process.env.OPENAI_API_KEY: unset, set to the empty string, or set
ApiKeys == {"undefined", "", "sk-test"}

\* !apiKey
IsFalsy(k) == k \in {"undefined", ""}

RECURSIVE Iota(_)
Iota(n) == IF n = 0 THEN << >> ELSE Append(Iota(n - 1), n)

\* last_events of the request body: absent, null, a number, a string, an array.
\* An array (or string) of n entries is <<1, .., n>>: distinct entries in order.
EventValues ==
    {[kind |-> k, items |-> << >>] : k \in {"undefined", "null", "number"}}
    \cup {[kind |-> "array", items |-> Iota(n)] : n \in 0..MaxEvents}
    \cup {[kind |-> "string", items |-> Iota(n)] : n \in {0, MaxEvents}}

NoEvents == [kind |-> "undefined", items |-> << >>]

\* const { last_events = [] } = req.body || {}
Destructured(le) ==
    IF le.kind = "undefined" THEN [kind |-> "array", items |-> << >>] ELSE le

\* Array.prototype.slice(start) and String.prototype.slice(start)
slice(seq, start) ==
    LET n == Len(seq)
        k == IF start < 0 THEN Max(n + start, 0) ELSE Min(start, n)
    IN SubSeq(seq, k + 1, n)

\* whether last_events.slice(-10) throws a TypeError (variant 1, line 53)
SliceThrows(le) == le.kind \in {"null", "number"}

RecentEventsFirst(v, le) ==
    IF v = 1
    THEN [le EXCEPT !.items = SubSeq(le.items, 1, Min(SliceCount, Len(le.items)))]
    ELSE IF le.kind = "array"
         THEN [le EXCEPT !.items = SubSeq(le.items, 1, Min(SliceCount, Len(le.items)))]
         ELSE [kind |-> "array", items |-> << >>]

\* recent_events of the user payload (line 53; line 200)
RecentEvents(v, le) ==
    IF v = 1
    THEN [le EXCEPT !.items = slice(le.items, 0 - SliceCount)]
    ELSE IF le.kind = "array"
         THEN [le EXCEPT !.items = slice(le.items, 0 - SliceCount)]
         ELSE [kind |-> "array", items |-> << >>]

\* A piece of text that is only copied: characters from..to-1 of `src`
NoText == [src |-> "none", from |-> 0, to |-> 0]
Body(src, n) == [src |-> src, from |-> 0, to |-> n]
TextLen(b) == b.to - b.from

\* String.prototype.slice(start, end) with 0 <= start <= end
sliceText(b, start, end) ==
    [b EXCEPT !.from = Min(b.from + start, b.to), !.to = Min(b.from + end, b.to)]

\* lengths of the error bodies an upstream service sends
BodyLens == {12, DetailsCap - 1} \cup (DetailsCap..(DetailsCap + MaxOver))

\* details of an upstream failure (lines 75, 105; lines 224, 255)
Details(v, errText) ==
    IF v = 1 THEN errText ELSE sliceText(errText, 0, DetailsCap)

\* what textResp.json() yields: a parse error, null, or an object with or
\* without output_text (a string) and with or without output (an array);
\* output is read only when output_text is absent or empty
TextJsons ==
    {[kind |-> k, has_text |-> FALSE, output_text |-> << >>, has_output |-> FALSE]
        : k \in {"invalid", "null"}}
    \cup {[kind |-> "object", has_text |-> FALSE, output_text |-> << >>, has_output |-> ho]
        : ho \in BOOLEAN}
    \cup {[kind |-> "object", has_text |-> TRUE, output_text |-> << >>, has_output |-> ho]
        : ho \in BOOLEAN}
    \cup {[kind |-> "object", has_text |-> TRUE, output_text |-> t, has_output |-> FALSE]
        : t \in Replies(MaxReplyLen) \ {<< >>}}

NoJson == [kind |-> "none", has_text |-> FALSE, output_text |-> << >>, has_output |-> FALSE]
NoResp == [kind |-> "none", body |-> NoText, json |-> NoJson]

\* JSON.stringify([]) = "[]"
StringifiedOutput == <<91, 93>>

\* whether reading output_text off the parsed reply throws (line 80),
\* json() itself throwing on a body that is no JSON (lines 78, 228)
ExtractThrows(v, j) ==
    \/ j.kind = "invalid"
    \/ v = 1 /\ j.kind = "null"

\* rawText (lines 79-81; line 229)
RawText(v, j) ==
    IF j.kind = "object" /\ j.has_text /\ j.output_text # << >>
    THEN j.output_text
    ELSE IF v = 1 /\ j.kind = "object" /\ j.has_output
         THEN StringifiedOutput
         ELSE << >>

\* audio bodies the speech service sends
Audios == {<< >>, <<1, 2>>}

\* A response: the status and the JSON body, `keys` naming the fields it holds
Response(status, keys, error, details, text, audio) ==
    [status |-> status, keys |-> keys, error |-> error, details |-> details,
     text |-> text, audio |-> audio, hasOpenAIKey |-> FALSE]

\* res.status(..).json(..) followed by return
Respond(r) ==
    /\ responses' = Append(responses, r)
    /\ pc' = "done"

CatchErrorSilent(msg) ==
    /\ responses' = responses
    /\ pc' = "done"

\* catch (e) { return res.status(500).json({error: "Server error", details}) }
CatchError(msg) ==
    Respond(Response(500, {"error", "details"}, "Server error",
                     Body(msg, 1), << >>, << >>))

----------------------------------------------------------------------------
(* The handler *)

Init ==
    /\ variant \in {1, 2}
    /\ apiKey \in ApiKeys
    /\ pc = "idle"
    /\ method = "POST"
    /\ last_events = NoEvents
    /\ recent_events = NoEvents
    /\ nGen = 0
    /\ nTts = 0
    /\ textResp = NoResp
    /\ rawText = << >>
    /\ cleanText = << >>
    /\ ttsInput = << >>
    /\ ttsResp = NoResp
    /\ responses = << >>
    /\ s = << >>
    /\ once = << >>
    /\ twice = << >>
    /\ phase = "off"

\* The host invokes handler(req, res) with a fresh request
Receive(m, le) ==
    /\ pc = "idle"
    /\ pc' = "start"
    /\ method' = m
    /\ last_events' = le
    /\ recent_events' = NoEvents
    /\ nGen' = 0
    /\ nTts' = 0
    /\ textResp' = NoResp
    /\ rawText' = << >>
    /\ cleanText' = << >>
    /\ ttsInput' = << >>
    /\ ttsResp' = NoResp
    /\ responses' = << >>
    /\ UNCHANGED <<sanVars, variant, apiKey>>

IsGetOrPost(m) == m \in {"GET", "POST"}

\* req.method !== "POST" is false (line 3; line 152)
IsPost(m) == m = "POST"

\* req.method === "GET" of the health probe (line 140)
IsHealth == variant = 2 /\ method = "GET"

local == <<recent_events, nGen, nTts, textResp, rawText, cleanText, ttsInput, ttsResp>>

\* lines 140-150
HealthCheck ==
    /\ pc = "start"
    /\ IsHealth
    /\ Respond([Response(200, {"ok", "route", "methods", "hasOpenAIKey", "textModel",
                               "ttsModel", "voice"}, "", NoText, << >>, << >>)
                EXCEPT !.hasOpenAIKey = ~IsFalsy(apiKey)])
    /\ UNCHANGED <<sanVars, variant, apiKey, method, last_events, local>>

\* lines 3-5; lines 152-154
RejectMethod ==
    /\ pc = "start"
    /\ ~IsHealth
    /\ ~IsPost(method)
    /\ Respond(Response(405, {"error"}, "Method not allowed", NoText, << >>, << >>))
    /\ UNCHANGED <<sanVars, variant, apiKey, method, last_events, local>>

HasKeyUnlessEmpty(k) == k # "undefined"

\* !apiKey is false (line 17; line 157)
HasKey(k) == ~IsFalsy(k)

\* lines 16-17; lines 156-162
MissingKey ==
    /\ pc = "start"
    /\ ~IsHealth
    /\ IsPost(method)
    /\ ~HasKey(apiKey)
    /\ Respond(Response(500, IF variant = 1 THEN {"error"} ELSE {"error", "fix"},
                        "Missing OPENAI_API_KEY", NoText, << >>, << >>))
    /\ UNCHANGED <<sanVars, variant, apiKey, method, last_events, local>>

\* line 53 throwing into the catch of lines 119-121
BuildThrows ==
    /\ pc = "start"
    /\ ~IsHealth
    /\ IsPost(method)
    /\ HasKey(apiKey)
    /\ variant = 1
    /\ SliceThrows(Destructured(last_events))
    /\ CatchError("slice")
    /\ UNCHANGED <<sanVars, variant, apiKey, method, last_events, local>>

\* lines 7-71; lines 164-218: the user payload is built and the generation
\* call is made
SendGeneration ==
    /\ pc = "start"
    /\ ~IsHealth
    /\ IsPost(method)
    /\ HasKey(apiKey)
    /\ ~(variant = 1 /\ SliceThrows(Destructured(last_events)))
    /\ recent_events' = RecentEvents(variant, Destructured(last_events))
    /\ nGen' = nGen + 1
    /\ pc' = "awaitGen"
    /\ UNCHANGED <<sanVars, variant, apiKey, method, last_events, nTts, textResp, rawText,
                   cleanText, ttsInput, ttsResp, responses>>

\* the fetch of line 57 / 204 (or the read of its body) rejects
GenThrows ==
    /\ pc = "awaitGen"
    /\ textResp' = [NoResp EXCEPT !.kind = "throw"]
    /\ CatchError("fetch")
    /\ UNCHANGED <<sanVars, variant, apiKey, method, last_events, recent_events, nGen, nTts,
                   rawText, cleanText, ttsInput, ttsResp>>

GenFailedRetry(errText) ==
    /\ pc = "awaitGen"
    /\ textResp' = [NoResp EXCEPT !.kind = "fail", !.body = errText]
    /\ nGen' = nGen + 1
    /\ Respond(Response(500, {"error", "details"}, "Text generation failed",
                        Details(variant, errText), << >>, << >>))
    /\ UNCHANGED <<sanVars, variant, apiKey, method, last_events, recent_events, nTts,
                   rawText, cleanText, ttsInput, ttsResp>>

\* lines 73-76; lines 220-226: !textResp.ok
GenFailed(errText) ==
    /\ pc = "awaitGen"
    /\ textResp' = [NoResp EXCEPT !.kind = "fail", !.body = errText]
    /\ Respond(Response(500, {"error", "details"}, "Text generation failed",
                        Details(variant, errText), << >>, << >>))
    /\ UNCHANGED <<sanVars, variant, apiKey, method, last_events, recent_events, nGen, nTts,
                   rawText, cleanText, ttsInput, ttsResp>>

\* textResp.ok, and textResp.json() or the read of output_text throws
GenUnreadable(j) ==
    /\ pc = "awaitGen"
    /\ ExtractThrows(variant, j)
    /\ textResp' = [NoResp EXCEPT !.kind = "ok", !.json = j]
    /\ CatchError("json")
    /\ UNCHANGED <<sanVars, variant, apiKey, method, last_events, recent_events, nGen, nTts,
                   rawText, cleanText, ttsInput, ttsResp>>

\* lines 232-234: if (!cleanText), which variant 1 does not have
IsEmptyOutput(v, clean) == v = 2 /\ clean = << >>

\* lines 228-234: textResp.ok and the sanitized text is empty
GenEmpty(j) ==
    /\ pc = "awaitGen"
    /\ ~ExtractThrows(variant, j)
    /\ IsEmptyOutput(variant, sanitize(variant, RawText(variant, j)))
    /\ textResp' = [NoResp EXCEPT !.kind = "ok", !.json = j]
    /\ rawText' = RawText(variant, j)
    /\ cleanText' = sanitize(variant, RawText(variant, j))
    /\ Respond(Response(500, {"error"}, "Empty AI text output", NoText, << >>, << >>))
    /\ UNCHANGED <<sanVars, variant, apiKey, method, last_events, recent_events, nGen, nTts,
                   ttsInput, ttsResp>>

\* lines 78-101; lines 228-249: textResp.ok, the text is sanitized and the
\* speech call is made with it
SendTts(j) ==
    /\ pc = "awaitGen"
    /\ ~ExtractThrows(variant, j)
    /\ ~IsEmptyOutput(variant, sanitize(variant, RawText(variant, j)))
    /\ textResp' = [NoResp EXCEPT !.kind = "ok", !.json = j]
    /\ rawText' = RawText(variant, j)
    /\ cleanText' = sanitize(variant, RawText(variant, j))
    /\ ttsInput' = sanitize(variant, RawText(variant, j))
    /\ nTts' = nTts + 1
    /\ pc' = "awaitTts"
    /\ UNCHANGED <<sanVars, variant, apiKey, method, last_events, recent_events, nGen,
                   ttsResp, responses>>

\* the fetch of line 89 / 237 (or the read of its body) rejects
TtsThrows ==
    /\ pc = "awaitTts"
    /\ ttsResp' = [NoResp EXCEPT !.kind = "throw"]
    /\ CatchError("fetch")
    /\ UNCHANGED <<sanVars, variant, apiKey, method, last_events, recent_events, nGen, nTts,
                   textResp, rawText, cleanText, ttsInput>>

TtsFailedRawText(errText) ==
    /\ pc = "awaitTts"
    /\ ttsResp' = [NoResp EXCEPT !.kind = "fail", !.body = errText]
    /\ Respond(Response(500, {"error", "details", "text"}, "TTS failed",
                        Details(variant, errText), rawText, << >>))
    /\ UNCHANGED <<sanVars, variant, apiKey, method, last_events, recent_events, nGen, nTts,
                   textResp, rawText, cleanText, ttsInput>>

\* lines 103-106; lines 251-258: !ttsResp.ok
TtsFailed(errText) ==
    /\ pc = "awaitTts"
    /\ ttsResp' = [NoResp EXCEPT !.kind = "fail", !.body = errText]
    /\ Respond(Response(500, {"error", "details", "text"}, "TTS failed",
                        Details(variant, errText), cleanText, << >>))
    /\ UNCHANGED <<sanVars, variant, apiKey, method, last_events, recent_events, nGen, nTts,
                   textResp, rawText, cleanText, ttsInput>>

\* lines 108-117; lines 260-266: the audio is encoded and returned
TtsOk(audio) ==
    /\ pc = "awaitTts"
    /\ ttsResp' = [NoResp EXCEPT !.kind = "ok"]
    /\ Respond(Response(200, {"text", "audio"}, "", NoText, cleanText, audio))
    /\ UNCHANGED <<sanVars, variant, apiKey, method, last_events, recent_events, nGen, nTts,
                   textResp, rawText, cleanText, ttsInput>>

\* handler returns: nothing of the request outlives it
Return ==
    /\ pc = "done"
    /\ pc' = "idle"
    /\ method' = "POST"
    /\ last_events' = NoEvents
    /\ recent_events' = NoEvents
    /\ nGen' = 0
    /\ nTts' = 0
    /\ textResp' = NoResp
    /\ rawText' = << >>
    /\ cleanText' = << >>
    /\ ttsInput' = << >>
    /\ ttsResp' = NoResp
    /\ responses' = << >>
    /\ UNCHANGED <<sanVars, variant, apiKey>>

\* every step of a request being handled
Handle ==
    \/ HealthCheck
    \/ RejectMethod
    \/ MissingKey
    \/ BuildThrows
    \/ SendGeneration
    \/ GenThrows
    \/ \E n \in BodyLens : GenFailed(Body("gen", n))
    \/ \E j \in TextJsons : GenUnreadable(j)
    \/ \E j \in TextJsons : GenEmpty(j)
    \/ \E j \in TextJsons : SendTts(j)
    \/ TtsThrows
    \/ \E n \in BodyLens : TtsFailed(Body("tts", n))
    \/ \E a \in Audios : TtsOk(a)

Next ==
    \/ \E m \in Methods, le \in EventValues : Receive(m, le)
    \/ HealthCheck
    \/ RejectMethod
    \/ MissingKey
    \/ BuildThrows
    \/ SendGeneration
    \/ GenThrows
    \/ \E n \in BodyLens : GenFailed(Body("gen", n))
    \/ \E j \in TextJsons : GenUnreadable(j)
    \/ \E j \in TextJsons : GenEmpty(j)
    \/ \E j \in TextJsons : SendTts(j)
    \/ TtsThrows
    \/ \E n \in BodyLens : TtsFailed(Body("tts", n))
    \/ \E a \in Audios : TtsOk(a)
    \/ Return

Spec == Init /\ [][Next]_vars

\* The runtime runs every continuation of a started handler, and an outbound
\* call resolves or rejects (the HTTP client gives up on a silent peer).
FairSpec == Spec /\ WF_vars(Handle)

----------------------------------------------------------------------------
(* The sanitizer applied on its own, once and then again to its own output *)

SanInit ==
    /\ variant \in {1, 2}
    /\ apiKey = "sk-test"
    /\ pc = "idle"
    /\ method = "POST"
    /\ last_events = NoEvents
    /\ recent_events = NoEvents
    /\ nGen = 0
    /\ nTts = 0
    /\ textResp = NoResp
    /\ rawText = << >>
    /\ cleanText = << >>
    /\ ttsInput = << >>
    /\ ttsResp = NoResp
    /\ responses = << >>
    /\ s \in Strings(MaxLen)
    /\ once = << >>
    /\ twice = << >>
    /\ phase = "input"

SanitizeOnce ==
    /\ phase = "input"
    /\ once' = sanitize(variant, s)
    /\ phase' = "once"
    /\ UNCHANGED <<s, twice>>
    /\ UNCHANGED handlerVars

SanitizeTwice ==
    /\ phase = "once"
    /\ twice' = sanitize(variant, once)
    /\ phase' = "twice"
    /\ UNCHANGED <<s, once>>
    /\ UNCHANGED handlerVars

SanNext == SanitizeOnce \/ SanitizeTwice

SanSpec == SanInit /\ [][SanNext]_vars

----------------------------------------------------------------------------
(* Properties *)

\* the one response of a finished request
Sent == responses[1]
Answered == pc = "done" /\ Len(responses) = 1

\* the request is past the synchronous head of the handler
Decided == pc \in {"awaitGen", "awaitTts", "done"}

\* C1: a request whose method is not POST (and not GET where the health probe
\* exists) is answered 405 with an `error` field and causes no outbound call,
\* whatever its body and the credential.
C1_NonPostRejected ==
    (Decided /\ method # "POST" /\ ~(variant = 2 /\ method = "GET"))
        => /\ Answered
           /\ Sent.status = 405
           /\ "error" \in Sent.keys
           /\ nGen = 0
           /\ nTts = 0

C1_Witness ==
    /\ Answered
    /\ method = "PUT"
    /\ apiKey = "sk-test"
    /\ last_events.kind = "array"
    /\ Len(last_events.items) = 3
    /\ Sent.status = 405

\* C2 as stated: every request handled without a credential is answered with
\* the 500 configuration error and causes no outbound call.
C2_AnyRequestWithoutKey ==
    (Decided /\ apiKey \in {"undefined", ""})
        => /\ Answered
           /\ Sent.status = 500
           /\ Sent.error = "Missing OPENAI_API_KEY"
           /\ nGen = 0
           /\ nTts = 0

\* C2 amended: every POST request handled without a credential (unset or
\* empty) is answered with the 500 configuration error and causes no outbound
\* call; a request of another method is answered by the method check first.
C2_PostWithoutKey ==
    (Decided /\ method = "POST" /\ apiKey \in {"undefined", ""})
        => /\ Answered
           /\ Sent.status = 500
           /\ Sent.error = "Missing OPENAI_API_KEY"
           /\ nGen = 0
           /\ nTts = 0

C2_Witness ==
    /\ Answered
    /\ method = "POST"
    /\ apiKey = ""
    /\ Sent.status = 500
    /\ Sent.error = "Missing OPENAI_API_KEY"

\* C3: when the generation call succeeds and the sanitized text is empty, the
\* handler answers 500 "Empty AI text output" and never makes the speech call.
C3_EmptyOutputRejected ==
    (/\ textResp.kind = "ok"
     /\ ~ExtractThrows(variant, textResp.json)
     /\ sanitize(variant, RawText(variant, textResp.json)) = << >>)
        => /\ Answered
           /\ Sent.status = 500
           /\ Sent.error = "Empty AI text output"
           /\ nTts = 0

\* C4: when the generation call returns a non-success status the handler
\* answers 500 "Text generation failed", makes no speech call, and has made
\* exactly one generation call.
C4_GenerationFailure ==
    (textResp.kind = "fail")
        => /\ Answered
           /\ Sent.status = 500
           /\ Sent.error = "Text generation failed"
           /\ nTts = 0
           /\ nGen = 1

C4_Witness ==
    /\ Answered
    /\ textResp.kind = "fail"
    /\ TextLen(textResp.body) = 12
    /\ Sent.error = "Text generation failed"

\* C5: when generation succeeds and the speech call returns a non-success
\* status the handler answers 500 "TTS failed" and the `text` of the payload is
\* exactly the sanitized text that was sent as the speech call's input.
C5_TtsFailureCarriesText ==
    (ttsResp.kind = "fail")
        => /\ Answered
           /\ Sent.status = 500
           /\ Sent.error = "TTS failed"
           /\ "text" \in Sent.keys
           /\ Sent.text = ttsInput
           /\ ttsInput = sanitize(variant, rawText)

C5_Witness ==
    /\ Answered
    /\ ttsResp.kind = "fail"
    /\ rawText = <<9728, 97>>
    /\ Sent.text = <<97>>
    /\ nTts = 1

\* C6: sanitizing is idempotent: sanitizing the sanitized text changes nothing.
C6_SanitizeIdempotent ==
    (phase = "twice") => twice = once

\* C7: the sanitized text holds no code point of U+1F300..U+1FAFF or of
\* U+2600..U+27BF and no U+FE0F.
C7_NoPictographLeft ==
    (phase # "input") =>
        \A i \in 1..Len(once) :
            /\ CodePointAt(once, i) \notin 127744..129791
            /\ CodePointAt(once, i) \notin 9728..10175
            /\ CodePointAt(once, i) # 65039

\* C8: the recent_events forwarded to the generation call has at most 10
\* entries: the last 10 of last_events in order when it has more than 10, and
\* all of them unchanged otherwise.
C8_RecentEventsLastTen ==
    (Decided /\ nGen >= 1)
        => /\ Len(recent_events.items) <= 10
           /\ LET sent == Destructured(last_events)
                  n == Len(sent.items)
              IN sent.kind = "array"
                    => /\ recent_events.kind = "array"
                       /\ IF n > 10
                          THEN /\ Len(recent_events.items) = 10
                               /\ \A i \in 1..10 :
                                      recent_events.items[i] = sent.items[n - 10 + i]
                          ELSE recent_events.items = sent.items

C8_Witness ==
    /\ pc = "awaitGen"
    /\ nGen = 1
    /\ last_events.kind = "array"
    /\ Len(last_events.items) = 11
    /\ recent_events.items = <<2, 3, 4, 5, 6, 7, 8, 9, 10, 11>>

\* C9: every request that the handler starts on ends with exactly one
\* response: never more than one is sent, a finished request has one, and a
\* started request finishes.
C9_ExactlyOneResponse ==
    /\ [](Len(responses) <= 1)
    /\ [](pc = "done" => Len(responses) = 1)
    /\ (pc = "start") ~> (pc = "done")

C9_Witness ==
    /\ Answered
    /\ variant = 1
    /\ last_events.kind = "number"
    /\ Sent.error = "Server error"

\* C10: the `details` of a generation or speech failure is the upstream body
\* cut to its first 2000 characters, so never longer than 2000.
C10_DetailsCapped ==
    (Answered /\ Sent.error \in {"Text generation failed", "TTS failed"})
        => LET upstream == IF Sent.error = "TTS failed"
                           THEN ttsResp.body
                           ELSE textResp.body
           IN /\ TextLen(Sent.details) <= 2000
              /\ Sent.details.src = upstream.src
              /\ Sent.details.from = 0
              /\ Sent.details.to = Min(TextLen(upstream), 2000)

====
